---- MODULE Spec2Model ----
(***************************************************************************)
(* Model of pgfplots_generator.py: the interactive prompts of main(), the  *)
(* text normalisation they perform and the two markup renderers.           *)
(*                                                                         *)
(* Text is modelled as a sequence of one-character strings, so that the    *)
(* string operations of the program (strip, lower, split, replace, the     *)
(* regular expressions, float) are computed character by character.        *)
(***************************************************************************)
EXTENDS Integers, Sequences, FiniteSets, TLC

(***************************************************************************)
(* Characters and the str methods the program uses                         *)
(***************************************************************************)
LowerLetters == <<"a","b","c","d","e","f","g","h","i","j","k","l","m",
                  "n","o","p","q","r","s","t","u","v","w","x","y","z">>

UpperLetters == <<"A","B","C","D","E","F","G","H","I","J","K","L","M",
                  "N","O","P","Q","R","S","T","U","V","W","X","Y","Z">>

Digits == <<"0","1","2","3","4","5","6","7","8","9">>

\* the character class [A-Za-z]
IsLetter(c) == \E i \in 1..26 : c = LowerLetters[i] \/ c = UpperLetters[i]

\* the character class \d
IsDigit(c) == \E i \in 1..10 : c = Digits[i]

\* the character class \s, and the characters str.strip() removes
IsSpace(c) == c \in {" ", "\t"}

DigitVal(c) == CHOOSE k \in 0..9 : Digits[k + 1] = c

LowerChar(c) ==
    IF \E i \in 1..26 : c = UpperLetters[i]
    THEN LowerLetters[CHOOSE i \in 1..26 : c = UpperLetters[i]]
    ELSE c

\* str.lower()
Lower(s) == [i \in 1..Len(s) |-> LowerChar(s[i])]

RECURSIVE LStrip(_)
LStrip(s) == IF s # <<>> /\ IsSpace(s[1]) THEN LStrip(Tail(s)) ELSE s

RECURSIVE RStrip(_)
RStrip(s) ==
    IF s # <<>> /\ IsSpace(s[Len(s)]) THEN RStrip(SubSeq(s, 1, Len(s) - 1)) ELSE s

\* str.strip()
Strip(s) == RStrip(LStrip(s))

\* the element of a one-element set: Only({F(v) : v \in {e}}) is F(e), with e
\* evaluated once, before F reads it
Only(S) == CHOOSE v \in S : TRUE

\* the pieces of s from position b on, the scan for sep being at position i
RECURSIVE SplitFrom(_, _, _, _)
SplitFrom(s, sep, b, i) ==
    IF i > Len(s) THEN <<SubSeq(s, b, Len(s))>>
    ELSE IF s[i] = sep
         THEN <<SubSeq(s, b, i - 1)>> \o SplitFrom(s, sep, i + 1, i + 1)
         ELSE SplitFrom(s, sep, b, i + 1)

\* str.split(sep) for a one-character separator: "" splits into [""]
Split(s, sep) == SplitFrom(s, sep, 1, 1)

RECURSIVE JoinFrom(_, _, _)
JoinFrom(parts, sep, i) ==
    IF i > Len(parts) THEN <<>>
    ELSE IF i = Len(parts) THEN parts[i]
    ELSE parts[i] \o sep \o JoinFrom(parts, sep, i + 1)

\* sep.join(parts)
Join(parts, sep) == JoinFrom(parts, sep, 1)

(***************************************************************************)
(* Numbers: float(), the comparison of two floats and str() of a number.   *)
(* A number is sign, numerator and a power-of-ten denominator, which is    *)
(* exact for the decimal literals of the input alphabet; "nan" is the      *)
(* IEEE not-a-number float() also accepts.  Exponents, "inf" and digit     *)
(* separators are outside the input alphabet of the model.                 *)
(***************************************************************************)
IntVal(k) ==
    [kind |-> "int", neg |-> k < 0, n |-> IF k < 0 THEN -k ELSE k, d |-> 1]

FloatVal(neg, n, d) == [kind |-> "float", neg |-> neg, n |-> n, d |-> d]

NaN == [kind |-> "nan", neg |-> FALSE, n |-> 0, d |-> 1]

\* the ValueError float() raises
ValueError == [kind |-> "error", neg |-> FALSE, n |-> 0, d |-> 1]

RECURSIVE DigitsFrom(_, _, _)
DigitsFrom(s, i, acc) ==
    IF i > Len(s) THEN acc ELSE DigitsFrom(s, i + 1, 10 * acc + DigitVal(s[i]))

\* the number a run of digits denotes
DigitsToNat(s) == DigitsFrom(s, 1, 0)

RECURSIVE Pow10(_)
Pow10(k) == IF k = 0 THEN 1 ELSE 10 * Pow10(k - 1)

\* 1.50 and 1.5 are the same float
RECURSIVE Normalise(_)
Normalise(v) ==
    IF v.d > 1 /\ v.n % 10 = 0
    THEN Normalise([v EXCEPT !.n = @ \div 10, !.d = @ \div 10])
    ELSE v

\* float() of a trimmed text t
FloatOfTrimmed(t) ==
    LET sgn  == t # <<>> /\ t[1] \in {"+", "-"}
        neg  == t # <<>> /\ t[1] = "-"
        body == IF sgn THEN Tail(t) ELSE t
        prts == Split(body, ".")
        ip   == prts[1]
        fp   == IF Len(prts) = 2 THEN prts[2] ELSE <<>>
        ds   == ip \o fp
    IN  IF Lower(body) = <<"n", "a", "n">> THEN NaN
        ELSE IF /\ Len(prts) <= 2
                /\ ds # <<>>
                /\ \A i \in 1..Len(ds) : IsDigit(ds[i])
             THEN Normalise(FloatVal(neg, DigitsToNat(ds), Pow10(Len(fp))))
             ELSE ValueError

\* float(s) for a str s: surrounding whitespace is ignored
ParseFloat(s) == Only({ FloatOfTrimmed(t) : t \in {Strip(s)} })

\* float(k) for an int k
IntToFloat(v) == [v EXCEPT !.kind = "float"]

Signed(v) == IF v.neg THEN -v.n ELSE v.n

\* a >= b on floats: False whenever an operand is nan
NumGE(a, b) ==
    /\ a.kind # "nan" /\ b.kind # "nan"
    /\ Signed(a) * b.d >= Signed(b) * a.d

\* a < b on floats
NumLT(a, b) ==
    /\ a.kind # "nan" /\ b.kind # "nan"
    /\ Signed(a) * b.d < Signed(b) * a.d

\* a == b on numbers (an int equals the float of the same value)
NumEQ(a, b) ==
    /\ a.kind # "nan" /\ b.kind # "nan"
    /\ Signed(a) * b.d = Signed(b) * a.d

RECURSIVE NatToText(_)
NatToText(k) ==
    IF k < 10 THEN <<Digits[k + 1]>>
    ELSE NatToText(k \div 10) \o <<Digits[(k % 10) + 1]>>

RECURSIVE PadLeft(_, _)
PadLeft(s, w) == IF Len(s) >= w THEN s ELSE PadLeft(<<"0">> \o s, w)

RECURSIVE Log10(_)
Log10(d) == IF d <= 1 THEN 0 ELSE 1 + Log10(d \div 10)

\* str(v) as an f-string formats it: 5 -> "5", 5.0 -> "5.0", 1.5 -> "1.5"
FormatNum(v) ==
    LET sign == IF v.neg THEN <<"-">> ELSE <<>>
    IN  CASE v.kind = "nan" -> <<"n", "a", "n">>
          [] v.kind = "int" -> sign \o NatToText(v.n)
          [] OTHER ->
                sign \o NatToText(v.n \div v.d) \o <<".">> \o
                (IF v.d = 1 THEN <<"0">>
                 ELSE PadLeft(NatToText(v.n % v.d), Log10(v.d)))

(***************************************************************************)
(* prompt_equation: the text rewriting before the parser is called         *)
(***************************************************************************)
\* s from position i on, with the occurrences of old replaced by new
RECURSIVE ReplaceFrom(_, _, _, _)
ReplaceFrom(s, old, new, i) ==
    IF i + Len(old) - 1 > Len(s) THEN SubSeq(s, i, Len(s))
    ELSE IF SubSeq(s, i, i + Len(old) - 1) = old
         THEN new \o ReplaceFrom(s, old, new, i + Len(old))
         ELSE <<s[i]>> \o ReplaceFrom(s, old, new, i + 1)

\* str.replace(old, new): leftmost, non-overlapping occurrences
Replace(s, old, new) == ReplaceFrom(s, old, new, 1)

\* the pattern written [a-zA-Z]+ : a run of letters before '=' is stripped
RECURSIVE LetterRun(_, _)
LetterRun(s, i) ==
    IF i <= Len(s) /\ IsLetter(s[i]) THEN 1 + LetterRun(s, i + 1) ELSE 0

StripAnyLettersPrefix(s) ==
    LET a == LStrip(s)
        k == LetterRun(a, 1)
        b == IF k > 0 THEN LStrip(SubSeq(a, k + 1, Len(a))) ELSE <<>>
    IN  IF b # <<>> /\ b[1] = "=" THEN LStrip(Tail(b)) ELSE s

\* re.sub(r'^\s*[a-zA-Z]\s*=\s*', '', eq_str)
StripAssignPrefix(s) ==
    LET a == LStrip(s)
        b == IF a # <<>> /\ IsLetter(a[1]) THEN LStrip(Tail(a)) ELSE <<>>
    IN  IF b # <<>> /\ b[1] = "=" THEN LStrip(Tail(b)) ELSE s

\* eq_str.replace('^', '**')
CaretToPow(s) == Replace(s, <<"^">>, <<"*", "*">>)

RECURSIVE InsertMulFrom(_, _)
InsertMulFrom(s, i) ==
    IF i > Len(s) THEN <<>>
    ELSE IF /\ IsDigit(s[i])
            /\ i < Len(s)
            /\ (IsLetter(s[i + 1]) \/ s[i + 1] = "(")
         THEN <<s[i], "*">> \o InsertMulFrom(s, i + 1)
         ELSE <<s[i]>> \o InsertMulFrom(s, i + 1)

\* re.sub(r'(\d)(?=[A-Za-z\(])', r'\1*', eq_str)
InsertMul(s) == InsertMulFrom(s, 1)

\* lines 53-58: the text that is handed to sympify
NormaliseEquation(line) ==
    Only({ InsertMul(c) : c \in
         { CaretToPow(b) : b \in
         { StripAssignPrefix(a) : a \in {Strip(line)} } } })

(***************************************************************************)
(* The symbolic library, as far as the program depends on it: sympify      *)
(* accepts well-formed infix text over numbers, names, + - * / **,         *)
(* parentheses and calls of known functions, makes a Symbol of every other *)
(* name, and raises on anything else; str() prints the expression back in  *)
(* infix form.  The reordering and simplification of terms the library     *)
(* performs is not modelled: an expression is its sequence of tokens.      *)
(***************************************************************************)
IsNameStart(c) == IsLetter(c) \/ c = "_"

IsNameChar(c) == IsLetter(c) \/ IsDigit(c) \/ c = "_"

\* length of the longest run of digits of s that starts at position i
RECURSIVE DigitRun(_, _)
DigitRun(s, i) ==
    IF i <= Len(s) /\ IsDigit(s[i]) THEN 1 + DigitRun(s, i + 1) ELSE 0

\* length of the longest run of name characters of s that starts at position i
RECURSIVE NameRun(_, _)
NameRun(s, i) ==
    IF i <= Len(s) /\ IsNameChar(s[i]) THEN 1 + NameRun(s, i + 1) ELSE 0

\* length of the token of s that starts at position i
TokenLen(s, i) ==
    IF IsNameStart(s[i]) THEN NameRun(s, i)
    ELSE IF IsDigit(s[i]) THEN DigitRun(s, i)
    ELSE IF i < Len(s) /\ s[i] = "*" /\ s[i + 1] = "*" THEN 2
    ELSE 1

\* the tokens of s from position i on
RECURSIVE TokenizeFrom(_, _)
TokenizeFrom(s, i) ==
    IF i > Len(s) THEN <<>>
    ELSE IF IsSpace(s[i]) THEN TokenizeFrom(s, i + 1)
    ELSE Only({ <<SubSeq(s, i, i + k - 1)>> \o TokenizeFrom(s, i + k) :
                k \in {TokenLen(s, i)} })

Tokenize(s) == TokenizeFrom(s, 1)

FunctionNames ==
    { <<"s","i","n">>, <<"c","o","s">>, <<"t","a","n">>,
      <<"e","x","p">>, <<"l","o","g">>, <<"s","q","r","t">> }

IsNameTok(t) == IsNameStart(t[1])

IsNumTok(t) == IsDigit(t[1])

IsBinOp(t) == t \in { <<"+">>, <<"-">>, <<"*">>, <<"/">>, <<"*","*">> }

\* well-formedness of toks[i..]: operand expected or not, open parentheses
RECURSIVE WellFormed(_, _, _, _)
WellFormed(toks, i, operand, depth) ==
    IF i > Len(toks) THEN ~operand /\ depth = 0
    ELSE LET t == toks[i]
         IN  IF operand
             THEN IF IsNumTok(t) THEN WellFormed(toks, i + 1, FALSE, depth)
                  ELSE IF IsNameTok(t)
                       THEN IF i < Len(toks) /\ toks[i + 1] = <<"(">>
                            THEN /\ t \in FunctionNames
                                 /\ WellFormed(toks, i + 2, TRUE, depth + 1)
                            ELSE /\ t \notin FunctionNames
                                 /\ WellFormed(toks, i + 1, FALSE, depth)
                  ELSE IF t = <<"(">> THEN WellFormed(toks, i + 1, TRUE, depth + 1)
                  ELSE IF t \in { <<"+">>, <<"-">> }
                       THEN WellFormed(toks, i + 1, TRUE, depth)
                  ELSE FALSE
             ELSE IF IsBinOp(t) THEN WellFormed(toks, i + 1, TRUE, depth)
                  ELSE IF t = <<")">> /\ depth > 0
                       THEN WellFormed(toks, i + 1, FALSE, depth - 1)
                  ELSE FALSE

\* sp.sympify(eq_str): ok is FALSE when it raises
Sympify(text) ==
    Only({ [ok |-> WellFormed(toks, 1, TRUE, 0), toks |-> toks] :
           toks \in {Tokenize(text)} })

\* sp.simplify(expr)
Simplify(e) == e

\* expr.free_symbols
FreeSymbols(e) ==
    { e[i] : i \in {j \in 1..Len(e) : IsNameTok(e[j]) /\ e[j] \notin FunctionNames} }

\* str(expr): binary + and - are printed with a space on each side
RECURSIVE StrFrom(_, _)
StrFrom(e, i) ==
    IF i > Len(e) THEN <<>>
    ELSE LET t      == e[i]
             binary == /\ i > 1
                       /\ t \in { <<"+">>, <<"-">> }
                       /\ (IsNumTok(e[i-1]) \/ IsNameTok(e[i-1]) \/ e[i-1] = <<")">>)
         IN  (IF binary THEN <<" ">> \o t \o <<" ">> ELSE t) \o StrFrom(e, i + 1)

StrExpr(e) == StrFrom(e, 1)

(***************************************************************************)
(* The renderers                                                           *)
(***************************************************************************)
PREAMBLE ==
    "Preamble to copy-paste:\n\\usepackage{tikz}\n\\usepackage{pgfplots}\n\\pgfplotsset{compat=1.18,width=\\linewidth,height=0.5\\textheight,tick align=outside,grid=major,trig format plots=rad}\n"

\* raw.replace('**', '^')
PowToCaret(s) == Replace(s, <<"*","*">>, <<"^">>)

\* re.sub(r'(?<![A-Za-z])x(?![A-Za-z])', r'\\x', raw)
RECURSIVE RewriteXFrom(_, _)
RewriteXFrom(s, i) ==
    IF i > Len(s) THEN <<>>
    ELSE (IF /\ s[i] = "x"
             /\ (i = 1 \/ ~IsLetter(s[i - 1]))
             /\ (i = Len(s) \/ ~IsLetter(s[i + 1]))
          THEN <<"\\", "x">>
          ELSE <<s[i]>>) \o RewriteXFrom(s, i + 1)

RewriteX(s) == RewriteXFrom(s, 1)

\* raw.replace('log(', 'ln(')
LogToLn(s) == Replace(s, <<"l","o","g","(">>, <<"l","n","(">>)

\* lines 154-160: the curve text placed in the \addplot directive
RenderExpr(e) ==
    Only({ LogToLn(c) : c \in
         { RewriteX(b) : b \in
         { PowToCaret(a) : a \in {StrExpr(e)} } } })

\* the literal pieces of the two templates the substituted values sit between
EqDomainOpen  == "\n\\begin{tikzpicture}  % start TikZ environment\n  \\begin{axis}[  % configure axis settings\n    domain="
EqDomainClose == ", samples=200,  % set domain & sampling\n     axis lines=middle,  % draw axes through origin\n     xlabel={"
LabelSep      == "}, ylabel={"
EqLabelClose  == "},  % label axes\n     grid=major,  % add major grid lines\n     enlargelimits=true  % add padding around plot\n   ]\n    \\addplot [smooth, thick, color="
EqCurveOpen   == "] { "
EqCurveClose  == " };  % draw the curve (change 'color' option to any valid LaTeX color name)\n  \\end{axis}  % end axis environment\n\\end{tikzpicture}  % end TikZ environment\n"
CoLabelOpen   == "\n\\begin{tikzpicture}  % start TikZ environment\n  \\begin{axis}[  % configure axis for coordinate plot\n    axis lines=middle,  % draw axes through origin\n    grid=major,  % add grid\n    xlabel={"
CoLabelClose  == "},  % label axes\n    enlargelimits=true  % add padding around plot\n  ]\n    \\addplot [thick, color="
CoCoordsOpen  == "] coordinates {"
CoCoordsClose == "};  % plot given coordinates (change 'color' to desired color)\n  \\end{axis}  % end axis environment\n\\end{tikzpicture}  % end TikZ environment\n"

\* generate_pgfplots_equation: the markup as literal pieces and characters
GeneratePgfplotsEquation(e, x_dom, xl, yl, col) ==
    <<PREAMBLE, EqDomainOpen>> \o FormatNum(x_dom[1]) \o <<":">> \o
    FormatNum(x_dom[2]) \o <<EqDomainClose>> \o xl \o <<LabelSep>> \o yl \o
    <<EqLabelClose>> \o col \o <<EqCurveOpen>> \o RenderExpr(e) \o <<EqCurveClose>>

\* f"({x},{y})" for one point
FormatPoint(p) == <<"(">> \o FormatNum(p[1]) \o <<",">> \o FormatNum(p[2]) \o <<")">>

\* the points joined last to first
CoordsStrReversed(pts) ==
    Only({ Join(groups, <<" ">>) :
           groups \in {[i \in 1..Len(pts) |-> FormatPoint(pts[Len(pts) + 1 - i])]} })

\* " ".join(f"({x},{y})" for x, y in points)
CoordsStr(pts) ==
    Only({ Join(groups, <<" ">>) :
           groups \in {[i \in 1..Len(pts) |-> FormatPoint(pts[i])]} })

\* generate_tikz_coordinates
GenerateTikzCoordinates(pts, xl, yl, col) ==
    <<PREAMBLE, CoLabelOpen>> \o xl \o <<LabelSep>> \o yl \o <<CoLabelClose>> \o
    col \o <<CoCoordsOpen>> \o CoordsStr(pts) \o <<CoCoordsClose>>

(***************************************************************************)
(* The lines a user may type at each prompt                                *)
(***************************************************************************)
ChoiceLines ==
    { <<"1">>,
      <<" ","2"," ">>,
      <<"3">>,
      <<>> }

EquationLines ==
    { <<"y"," ","="," ","x","^","2"," ","+"," ","s","i","n","(","x",")">>,
      <<"y","=","2","x">>,
      <<"3","(","x","+","1",")"," ","+"," ","l","o","g","(","x",")">>,
      <<"y","y"," ","="," ","x">>,
      <<"f","1"," ","="," ","x">>,
      <<"a","*","x">>,
      <<"x","1"," ","+"," ","x">>,
      <<"a","_","x"," ","+"," ","x","_","0">>,
      <<"x"," ","+">> }

DomainLines ==
    { <<>>,
      <<" ","5"," ">>,
      <<"-","5">>,
      <<"1",".","5">>,
      <<"a","b","c">>,
      <<"n","a","n">> }

LabelAnswers ==
    { <<"y">>,
      <<" ","Y","E","S"," ">>,
      <<"n">>,
      <<>>,
      <<"y","e">> }

LabelTexts ==
    { <<" ","f","(","t",")"," ">>,
      <<>> }

ColorLines ==
    { <<>>,
      <<" ","b","l","u","e"," ">> }

CoordLines ==
    { <<"0",",","0",";"," ","1",",","2",";"," ","2",",","1">>,
      <<"2",",","1",";","0",",","0">>,
      <<"1",".","5",",","-","2",";"," ","n","a","n",",","4">>,
      <<"1",",","2">>,
      <<"1",",","2",";"," ","3",",","4",";">>,
      <<"1",",","2",";"," ","3">>,
      <<"5",",","6",";"," ","a",",","b">>,
      <<"1",",","2",",","3",";"," ","4",",","5">>,
      <<>> }

\* the environment's patience: rejected entries per re-prompting step
MaxRejected == 2

(***************************************************************************)
(* State                                                                   *)
(***************************************************************************)
VARIABLES
    pc,          \* the input() call, or statement of main, the run is at
    choice,      \* main: choice
    eq_str,      \* prompt_equation: the text last handed to sympify
    expr,        \* main: expr
    x_domain,    \* main: x_domain
    x_label,     \* main: x_label
    y_label,     \* main: y_label
    color,       \* main: color
    points,      \* main: points
    tikz_code,   \* main: tikz_code
    stdout,      \* what print() has written, one entry per call
    entered,     \* the step of every input() call so far, in order
    typed,       \* the lines input() returned in the latest call of each step
    rejected     \* entries rejected so far by each re-prompting step

vars == <<pc, choice, eq_str, expr, x_domain, x_label, y_label, color, points,
          tikz_code, stdout, entered, typed, rejected>>

Steps == {"choice", "equation", "domain", "labels", "color", "coordinates"}

RetrySteps == {"choice", "equation", "coordinates"}

\* print(text)
PrintLine(out, text) == Append(out, <<text>>)

Init ==
    /\ pc = "choice"
    /\ choice = <<>>
    /\ eq_str = <<>>
    /\ expr = <<>>
    /\ x_domain = <<>>
    /\ x_label = <<>>
    /\ y_label = <<>>
    /\ color = <<>>
    /\ points = <<>>
    /\ tikz_code = <<>>
    /\ stdout = <<>>
    /\ entered = <<>>
    /\ typed = [s \in Steps |-> <<>>]
    /\ rejected = [s \in RetrySteps |-> 0]

(***************************************************************************)
(* prompt_choice and the branch main takes on its result                   *)
(***************************************************************************)
\* any non-empty answer taken for a choice
ChoiceAcceptedLoose(c) == c # <<>>

\* choice in {"1", "2"}
ChoiceAccepted(c) == c \in { <<"1">>, <<"2">> }

\* the two branches of main exchanged
AfterChoiceSwapped(c) == IF c = <<"1">> THEN "coordinates" ELSE "equation"

\* main: if choice == "1": ... else: ...
AfterChoice(c) == IF c = <<"1">> THEN "equation" ELSE "coordinates"

PromptChoice ==
    /\ pc = "choice"
    /\ \E line \in ChoiceLines :
         LET c == Strip(line)
         IN  /\ entered' = Append(entered, "choice")
             /\ typed' = [typed EXCEPT !["choice"] = <<line>>]
             /\ IF ChoiceAccepted(c)
                THEN /\ choice' = c
                     /\ pc' = AfterChoice(c)
                     /\ UNCHANGED stdout
                     /\ UNCHANGED rejected
                ELSE /\ rejected["choice"] < MaxRejected
                     /\ rejected' = [rejected EXCEPT !["choice"] = @ + 1]
                     /\ stdout' = PrintLine(stdout, "Invalid choice. Please enter 1 or 2.")
                     /\ UNCHANGED <<choice, pc>>
    /\ UNCHANGED <<eq_str, expr, x_domain, x_label, y_label, color, points, tikz_code>>

(***************************************************************************)
(* prompt_equation                                                         *)
(***************************************************************************)
PromptEquation ==
    /\ pc = "equation"
    /\ \E line \in EquationLines :
         \E text \in {NormaliseEquation(line)} : \E res \in {Sympify(text)} :
             /\ entered' = Append(entered, "equation")
             /\ typed' = [typed EXCEPT !["equation"] = <<line>>]
             /\ eq_str' = text
             /\ IF res.ok
                THEN /\ expr' = Simplify(res.toks)
                     /\ pc' = "domain"
                     /\ UNCHANGED <<stdout, rejected>>
                ELSE /\ rejected["equation"] < MaxRejected
                     /\ rejected' = [rejected EXCEPT !["equation"] = @ + 1]
                     /\ stdout' = PrintLine(stdout,
                          "Could not parse the equation. Please use valid Python/math syntax.")
                     /\ UNCHANGED <<expr, pc>>
    /\ UNCHANGED <<choice, x_domain, x_label, y_label, color, points, tikz_code>>

(***************************************************************************)
(* prompt_domain                                                           *)
(***************************************************************************)
\* default = (-5, 5)
DefaultDomain == <<IntVal(-5), IntVal(5)>>

DomainBanner == "Enter the plotting domain for x (default (-5, 5)):"

\* float(input(...).strip() or dflt)
FloatOrDefault(line, dflt) ==
    IF Strip(line) = <<>> THEN IntToFloat(dflt) ELSE ParseFloat(Strip(line))

\* the test written xmin > xmax: equal bounds pass
CheckedDomainStrict(xmin, xmax) ==
    IF NumGE(xmin, xmax) /\ ~NumEQ(xmin, xmax) THEN DefaultDomain ELSE <<xmin, xmax>>

\* lines 78-81: the pair returned for two floats
CheckedDomain(xmin, xmax) ==
    IF NumGE(xmin, xmax) THEN DefaultDomain ELSE <<xmin, xmax>>

PromptDomain ==
    /\ pc = "domain"
    /\ \E l1 \in DomainLines :
         LET xmin == FloatOrDefault(l1, DefaultDomain[1])
             out  == PrintLine(stdout, DomainBanner)
         IN  IF xmin.kind = "error"
             THEN /\ entered' = Append(entered, "domain")
                  /\ typed' = [typed EXCEPT !["domain"] = <<l1>>]
                  /\ x_domain' = DefaultDomain
                  /\ stdout' = PrintLine(out, "Invalid number. Using default domain.")
             ELSE \E l2 \in DomainLines :
                    LET xmax == FloatOrDefault(l2, DefaultDomain[2])
                    IN  /\ entered' = entered \o <<"domain", "domain">>
                        /\ typed' = [typed EXCEPT !["domain"] = <<l1, l2>>]
                        /\ IF xmax.kind = "error"
                           THEN /\ x_domain' = DefaultDomain
                                /\ stdout' = PrintLine(out,
                                     "Invalid number. Using default domain.")
                           ELSE /\ x_domain' = CheckedDomain(xmin, xmax)
                                /\ stdout' = IF NumGE(xmin, xmax)
                                             THEN PrintLine(out,
                                               "x-min must be less than x-max. Using default domain.")
                                             ELSE out
    /\ pc' = "labels"
    /\ UNCHANGED <<choice, eq_str, expr, x_label, y_label, color, points,
                   tikz_code, rejected>>

(***************************************************************************)
(* prompt_labels and prompt_color                                          *)
(***************************************************************************)
\* choice.startswith('y')
IsYesPrefix(c) == c # <<>> /\ c[1] = "y"

\* choice in ('y', 'yes')
IsYes(c) == c \in { <<"y">>, <<"y","e","s">> }

\* f"${xlbl}$" for xlbl = input(...).strip()
WrapLabel(line) == <<"$">> \o Strip(line) \o <<"$">>

PromptLabels ==
    /\ pc = "labels"
    /\ \E a \in LabelAnswers :
         IF IsYes(Lower(Strip(a)))
         THEN \E lx \in LabelTexts, ly \in LabelTexts :
                /\ entered' = entered \o <<"labels", "labels", "labels">>
                /\ typed' = [typed EXCEPT !["labels"] = <<a, lx, ly>>]
                /\ x_label' = WrapLabel(lx)
                /\ y_label' = WrapLabel(ly)
         ELSE /\ entered' = Append(entered, "labels")
              /\ typed' = [typed EXCEPT !["labels"] = <<a>>]
              /\ x_label' = <<"$","x","$">>
              /\ y_label' = <<"$","y","$">>
    /\ pc' = "color"
    /\ UNCHANGED <<choice, eq_str, expr, x_domain, color, points, tikz_code,
                   stdout, rejected>>

\* color or "black"
ColorOrDefault(c) == IF c = <<>> THEN <<"b","l","a","c","k">> ELSE c

PromptColor ==
    /\ pc = "color"
    /\ \E line \in ColorLines :
         /\ entered' = Append(entered, "color")
         /\ typed' = [typed EXCEPT !["color"] = <<line>>]
         /\ color' = ColorOrDefault(Strip(line))
    /\ pc' = "render"
    /\ UNCHANGED <<choice, eq_str, expr, x_domain, x_label, y_label, points,
                   tikz_code, stdout, rejected>>

(***************************************************************************)
(* prompt_coordinates                                                      *)
(***************************************************************************)
CoordsBanner ==
    "Enter your coordinates as x,y pairs separated by semicolons\n(e.g. 0,0; 1,2; 2,1):"

\* lines 127-129 for one pair: the point, or the exception raised by the
\* unpacking or by a float()
ParsePair(pair) ==
    Only({ IF Len(flds) # 2 THEN <<ValueError, ValueError>>
           ELSE <<ParseFloat(flds[1]), ParseFloat(flds[2])>> :
           flds \in {Split(pair, ",")} })

PairRaises(pt) == pt[1].kind = "error" \/ pt[2].kind = "error"

\* the try placed inside the loop: a pair that raises is skipped
RECURSIVE ParsePairsSkipping(_, _, _)
ParsePairsSkipping(pairs, i, pts) ==
    IF i > Len(pairs) THEN [ok |-> TRUE, pts |-> pts]
    ELSE Only({ IF PairRaises(pt) THEN ParsePairsSkipping(pairs, i + 1, pts)
                ELSE ParsePairsSkipping(pairs, i + 1, Append(pts, pt)) :
                pt \in {ParsePair(pairs[i])} })

\* the for loop of lines 126-130 from the i-th pair on, pts collected so far;
\* ok is FALSE when the loop is left by an exception
RECURSIVE ParsePairs(_, _, _)
ParsePairs(pairs, i, pts) ==
    IF i > Len(pairs) THEN [ok |-> TRUE, pts |-> pts]
    ELSE Only({ IF PairRaises(pt) THEN [ok |-> FALSE, pts |-> pts]
                ELSE ParsePairs(pairs, i + 1, Append(pts, pt)) :
                pt \in {ParsePair(pairs[i])} })

\* lines 125-130 for one line of input
ParseCoordinates(data) ==
    Only({ ParsePairs(pairs, 1, <<>>) : pairs \in {Split(data, ";")} })

\* the test of line 131, negated
EnoughPoints(pts) == Len(pts) >= 2

PromptCoordinates ==
    /\ pc = "coordinates"
    /\ \E line \in CoordLines :
         \E res \in {ParseCoordinates(Strip(line))} :
         LET \* line 120 runs once, before the loop
             out == IF entered[Len(entered)] = "coordinates"
                    THEN stdout ELSE PrintLine(stdout, CoordsBanner)
         IN  /\ entered' = Append(entered, "coordinates")
             /\ typed' = [typed EXCEPT !["coordinates"] = <<line>>]
             /\ IF res.ok /\ EnoughPoints(res.pts)
                THEN /\ points' = res.pts
                     /\ pc' = "labels"
                     /\ stdout' = out
                     /\ UNCHANGED rejected
                ELSE /\ rejected["coordinates"] < MaxRejected
                     /\ rejected' = [rejected EXCEPT !["coordinates"] = @ + 1]
                     /\ stdout' = PrintLine(out,
                          IF res.ok THEN "Need at least two points. Please enter again."
                          ELSE "Invalid format. Please follow x,y; x,y; ...")
                     /\ UNCHANGED <<points, pc>>
    /\ UNCHANGED <<choice, eq_str, expr, x_domain, x_label, y_label, color, tikz_code>>

(***************************************************************************)
(* main: render, then print                                                *)
(***************************************************************************)
Render ==
    /\ pc = "render"
    /\ tikz_code' = IF AfterChoice(choice) = "equation"
                    THEN GeneratePgfplotsEquation(expr, x_domain, x_label, y_label, color)
                    ELSE GenerateTikzCoordinates(points, x_label, y_label, color)
    /\ pc' = "print"
    /\ UNCHANGED <<choice, eq_str, expr, x_domain, x_label, y_label, color, points,
                   stdout, entered, typed, rejected>>

PrintResult ==
    /\ pc = "print"
    /\ stdout' = Append(PrintLine(stdout, "\nCopy the following TikZ/PGFPlots code:\n"),
                        tikz_code)
    /\ pc' = "done"
    /\ UNCHANGED <<choice, eq_str, expr, x_domain, x_label, y_label, color, points,
                   tikz_code, entered, typed, rejected>>

Next ==
    \/ PromptChoice
    \/ PromptEquation
    \/ PromptDomain
    \/ PromptLabels
    \/ PromptColor
    \/ PromptCoordinates
    \/ Render
    \/ PrintResult

Spec == Init /\ [][Next]_vars

\* input() returns whenever a line is typed, and the capped rejections leave
\* an acceptable line as the only entry: the run keeps taking steps
LiveSpec == Spec /\ WF_vars(Next)

(***************************************************************************)
(* Vocabulary of the properties                                            *)
(***************************************************************************)
\* the run is past the step: its handler has returned
Returned(step) ==
    /\ \E i \in 1..Len(entered) : entered[i] = step
    /\ pc # step

\* number of input() calls made by a step
Reads(step) == Cardinality({i \in 1..Len(entered) : entered[i] = step})

\* entered without the repetitions of a step
RECURSIVE Collapse(_)
Collapse(s) ==
    IF Len(s) <= 1 THEN s
    ELSE IF s[1] = s[2] THEN Collapse(Tail(s))
    ELSE <<s[1]>> \o Collapse(Tail(s))

IsPrefix(a, b) == Len(a) <= Len(b) /\ SubSeq(b, 1, Len(a)) = a

\* the markup blocks among the entries of an output
Markups(out) == {i \in 1..Len(out) : out[i][1] = PREAMBLE}

\* the characters a template holds between two of its literal pieces
Between(code, open, close) ==
    LET i == CHOOSE k \in 1..Len(code) : code[k] = open
        j == CHOOSE k \in 1..Len(code) : code[k] = close
    IN  SubSeq(code, i + 1, j - 1)

Occurrences(s, c) == Cardinality({i \in 1..Len(s) : s[i] = c})

\* the value an entry at a domain prompt stands for
EnteredBound(line, dflt) ==
    IF Strip(line) = <<>> THEN IntVal(dflt) ELSE ParseFloat(line)

\* the entry is neither empty nor a number
NonNumeric(line) == Strip(line) # <<>> /\ ParseFloat(line).kind = "error"

(***************************************************************************)
(* C1: prompt_domain returns the default pair (-5, 5) whenever an entry is *)
(* non-numeric or the entered bounds satisfy xmin >= xmax, and the entered *)
(* values (an empty entry standing for that side's default) when both are  *)
(* numeric and xmin < xmax; it asks once, never again.                     *)
(***************************************************************************)
C1_DomainFallback ==
    Returned("domain") =>
        LET ls   == typed["domain"]
            bad  == \E i \in 1..Len(ls) : NonNumeric(ls[i])
            xmin == EnteredBound(ls[1], -5)
            xmax == EnteredBound(ls[2], 5)
        IN  /\ Reads("domain") = Len(ls)
            /\ bad => x_domain = DefaultDomain
            /\ (~bad /\ NumGE(xmin, xmax)) => x_domain = DefaultDomain
            /\ (~bad /\ NumLT(xmin, xmax)) =>
                   /\ NumEQ(x_domain[1], xmin)
                   /\ NumEQ(x_domain[2], xmax)

\* both entries numeric and equal, the run finished with the default domain
C1_Witness ==
    /\ pc = "done"
    /\ typed["domain"] = << <<" ","5"," ">>, <<" ","5"," ">> >>
    /\ x_domain = DefaultDomain
    /\ IsPrefix(<<"-","5",":","5">>, Between(tikz_code, EqDomainOpen, EqDomainClose))

(***************************************************************************)
(* C2: a coordinate line with fewer than 2 pairs, or with a pair that is   *)
(* not exactly two numeric fields (an empty pair after a final ';'         *)
(* included), is rejected as a whole: the step stays where it is, no       *)
(* coordinate list is returned and no markup exists or is printed until a  *)
(* line is entered whose pairs all parse and number at least 2.            *)
(***************************************************************************)
PairValid(pair) ==
    LET flds == Split(pair, ",")
    IN  /\ Len(flds) = 2
        /\ ParseFloat(flds[1]).kind # "error"
        /\ ParseFloat(flds[2]).kind # "error"

CoordLineValid(line) ==
    LET pairs == Split(Strip(line), ";")
    IN  /\ Len(pairs) >= 2
        /\ \A i \in 1..Len(pairs) : PairValid(pairs[i])

C2_Step ==
    (pc = "coordinates" /\ entered' # entered) =>
        IF CoordLineValid(typed'["coordinates"][1])
        THEN pc' = "labels" /\ Len(points') >= 2
        ELSE /\ pc' = "coordinates"
             /\ points' = <<>>
             /\ tikz_code' = <<>>
             /\ Markups(stdout') = {}

C2_RejectWholeLine ==
    /\ [][C2_Step]_vars
    /\ [](points # <<>> => CoordLineValid(typed["coordinates"][1]))

\* a line whose pairs parse but which ends in ';' was rejected
C2_Witness ==
    /\ pc = "coordinates"
    /\ typed["coordinates"] = << <<"1",",","2",";"," ","3",",","4",";">> >>
    /\ rejected["coordinates"] > 0
    /\ points = <<>>

(***************************************************************************)
(* C3: for an accepted coordinate line of n >= 2 pairs the coordinate      *)
(* clause of the markup is n groups "(x,y)", the i-th being the i-th pair  *)
(* of that line, joined by single spaces, whatever was rejected before.    *)
(***************************************************************************)
GroupOfPair(pair) ==
    LET flds == Split(pair, ",")
    IN  <<"(">> \o FormatNum(ParseFloat(flds[1])) \o <<",">> \o
        FormatNum(ParseFloat(flds[2])) \o <<")">>

C3_CoordinateClause ==
    (choice = <<"2">> /\ tikz_code # <<>>) =>
        LET pairs  == Split(Strip(typed["coordinates"][1]), ";")
            clause == Between(tikz_code, CoCoordsOpen, CoCoordsClose)
            groups == Split(clause, " ")
        IN  /\ Len(pairs) >= 2
            /\ Len(groups) = Len(pairs)
            /\ Occurrences(clause, "(") = Len(pairs)
            /\ Occurrences(clause, " ") = Len(pairs) - 1
            /\ \A i \in 1..Len(pairs) : groups[i] = GroupOfPair(pairs[i])

\* three points plotted after an earlier line was rejected
C3_Witness ==
    /\ pc = "done"
    /\ choice = <<"2">>
    /\ rejected["coordinates"] > 0
    /\ Between(tikz_code, CoCoordsOpen, CoCoordsClose) = <<"(","0",".","0",",","0",".","0",")"," ","(","1",".","0",",","2",".","0",")"," ","(","2",".","0",",","1",".","0",")">>

(***************************************************************************)
(* C4: a run of main follows the step sequence of its mode, 1: equation,   *)
(* domain, labels, color or 2: coordinates, labels, color, then renders    *)
(* and prints; a step starts only with the value of the previous one in    *)
(* hand, the steps of the other mode never run, and exactly one markup     *)
(* block is printed, as the last action of the run.                        *)
(***************************************************************************)
ModeSteps(c) ==
    IF c = <<"1">> THEN <<"choice", "equation", "domain", "labels", "color">>
    ELSE IF c = <<"2">> THEN <<"choice", "coordinates", "labels", "color">>
    ELSE <<"choice">>

C4_StepSequence ==
    LET seq  == ModeSteps(choice)
        past == Collapse(entered)
    IN  /\ IsPrefix(past, seq)
        /\ pc \in Steps =>
              \/ Len(past) < Len(seq) /\ pc = seq[Len(past) + 1]
              \/ pc \in RetrySteps /\ past # <<>> /\ pc = past[Len(past)]
        /\ pc \in {"render", "print", "done"} => (choice # <<>> /\ past = seq)
        /\ pc \in {"equation", "coordinates"} => choice \in { <<"1">>, <<"2">> }
        /\ pc = "domain" => expr # <<>>
        /\ pc = "labels" => IF choice = <<"1">> THEN Len(x_domain) = 2
                            ELSE Len(points) >= 2
        /\ pc = "color" => (x_label # <<>> /\ y_label # <<>>)
        /\ pc = "render" => color # <<>>
        /\ choice = <<"1">> => points = <<>>
        /\ choice = <<"2">> => (expr = <<>> /\ x_domain = <<>>)
        /\ (tikz_code # <<>>) <=> (pc \in {"print", "done"})
        /\ Cardinality(Markups(stdout)) = IF pc = "done" THEN 1 ELSE 0
        /\ pc = "done" => stdout[Len(stdout)] = tikz_code

\* a finished run of coordinate mode that had to ask for the mode twice
C4_Witness ==
    /\ pc = "done"
    /\ choice = <<"2">>
    /\ rejected["choice"] > 0
    /\ Collapse(entered) = <<"choice", "coordinates", "labels", "color">>
    /\ Markups(stdout) = {Len(stdout)}

(***************************************************************************)
(* C5: an invalid entry at the mode, equation or coordinate step leaves    *)
(* the run at that step, however many came before, and a valid one moves   *)
(* it on; with a valid entry eventually given at each of these steps the   *)
(* run ends having printed one complete markup block.                      *)
(***************************************************************************)
ValidEntry(step, line) ==
    CASE step = "choice"      -> Strip(line) \in { <<"1">>, <<"2">> }
      [] step = "equation"    -> Sympify(NormaliseEquation(line)).ok
      [] step = "coordinates" -> CoordLineValid(line)

C5_Step ==
    (pc \in RetrySteps /\ entered' # entered) =>
        IF ValidEntry(pc, typed'[pc][1])
        THEN pc' # pc /\ pc' \in Steps
        ELSE /\ pc' = pc
             /\ UNCHANGED <<choice, expr, points, tikz_code>>

C5_RepromptUntilValid ==
    /\ [][C5_Step]_vars
    /\ <>(pc = "done" /\ Cardinality(Markups(stdout)) = 1)

\* a finished run in which the mode and the equation were each refused twice
C5_Witness ==
    /\ pc = "done"
    /\ rejected["choice"] >= 2
    /\ rejected["equation"] >= 2
    /\ Cardinality(Markups(stdout)) = 1

(***************************************************************************)
(* C6: prompt_domain consumes exactly two input lines, x-min then x-max,   *)
(* whatever their content.                                                 *)
(***************************************************************************)
C6_DomainReadsTwo ==
    Returned("domain") => (Reads("domain") = 2 /\ Len(typed["domain"]) = 2)

(***************************************************************************)
(* C7: in prompt_labels an answer that is 'y' or 'yes' once trimmed and    *)
(* lower-cased makes the step read exactly two more lines and return each  *)
(* wrapped in '$'; any other answer gives '$x$' and '$y$' with no further  *)
(* line read; the step is never asked again.                               *)
(***************************************************************************)
C7_Labels ==
    Returned("labels") =>
        LET ls     == typed["labels"]
            answer == Lower(Strip(ls[1]))
        IN  /\ Reads("labels") = Len(ls)
            /\ IF answer \in { <<"y">>, <<"y","e","s">> }
               THEN /\ Len(ls) = 3
                    /\ x_label = <<"$">> \o Strip(ls[2]) \o <<"$">>
                    /\ y_label = <<"$">> \o Strip(ls[3]) \o <<"$">>
               ELSE /\ Len(ls) = 1
                    /\ x_label = <<"$","x","$">>
                    /\ y_label = <<"$","y","$">>

\* an upper-case, padded yes followed by a label and an empty label
C7_Witness ==
    /\ pc = "done"
    /\ typed["labels"] = << <<" ","Y","E","S"," ">>, <<" ","f","(","t",")"," ">>, <<>> >>
    /\ x_label = <<"$","f","(","t",")","$">>
    /\ y_label = <<"$","$">>

(***************************************************************************)
(* C8: the expression prompt_equation returns has no free variable other   *)
(* than x.                                                                 *)
(***************************************************************************)
C8_SingleVariable ==
    expr # <<>> => FreeSymbols(expr) \subseteq { <<"x">> }

(***************************************************************************)
(* C9: the text handed to the parser is the entry without its leading      *)
(* assignment prefix, and the whole entry when it has none.                *)
(***************************************************************************)
EqualsIndex(s) ==
    LET idx == {i \in 1..Len(s) : s[i] = "="}
    IN  IF idx = {} THEN 0 ELSE CHOOSE i \in idx : \A k \in idx : i <= k

LeftSide(s) == Strip(SubSeq(s, 1, EqualsIndex(s) - 1))

RightSide(s) == LStrip(SubSeq(s, EqualsIndex(s) + 1, Len(s)))

IsIdentifier(t) ==
    /\ t # <<>>
    /\ IsNameStart(t[1])
    /\ \A i \in 1..Len(t) : IsNameChar(t[i])

\* the later rewriting of lines 56-58, which leaves the prefix question alone
PowerAndProduct(s) == InsertMul(CaretToPow(s))

\* C9 as stated: a prefix "<identifier> =" of any length is stripped
C9_AnyIdentifierPrefix ==
    typed["equation"] # <<>> =>
        LET line == Strip(typed["equation"][1])
        IN  IF EqualsIndex(line) > 0 /\ IsIdentifier(LeftSide(line))
            THEN eq_str = PowerAndProduct(RightSide(line))
            ELSE eq_str = PowerAndProduct(line)

\* C9 as amended: the prefix stripped is a single letter followed by '=';
\* an entry that does not start so, a longer identifier included, is handed
\* over with nothing removed
C9_SingleLetterPrefix ==
    typed["equation"] # <<>> =>
        LET line == Strip(typed["equation"][1])
            left == LeftSide(line)
        IN  IF EqualsIndex(line) > 0 /\ Len(left) = 1 /\ IsLetter(left[1])
            THEN eq_str = PowerAndProduct(RightSide(line))
            ELSE eq_str = PowerAndProduct(line)

\* "y = ..." was stripped to its right-hand side and accepted
C9_Witness ==
    /\ pc = "domain"
    /\ typed["equation"] = << <<"y"," ","="," ","x","^","2"," ","+"," ","s","i","n","(","x",")">> >>
    /\ eq_str = <<"x","*","*","2"," ","+"," ","s","i","n","(","x",")">>

(***************************************************************************)
(* C10: in the curve text every standalone x of the serialized expression  *)
(* is written \x and no x inside a longer identifier is touched, be its    *)
(* neighbours letters, digits or underscores.                              *)
(***************************************************************************)
Unescaped(s) == SelectSeq(s, LAMBDA c : c # "\\")

C10_StandaloneX ==
    (choice = <<"1">> /\ tikz_code # <<>>) =>
        LET curve == Between(tikz_code, EqCurveOpen, EqCurveClose)
        IN  /\ Unescaped(curve) = LogToLn(PowToCaret(StrExpr(expr)))
            /\ Occurrences(curve, "\\") =
                   Cardinality({i \in 1..Len(expr) : expr[i] = <<"x">>})
            /\ \A i \in 1..Len(curve) :
                   curve[i] = "\\" => (i < Len(curve) /\ curve[i + 1] = "x")

====
